---------------------------- MODULE Spec2Model ----------------------------
(***************************************************************************)
(* A model of react-dynamic-help: the HelpItem display component           *)
(* (src/src/components/HelpItem.tsx) and the HelpProvider boundary         *)
(* component (src/unnamed/part_000).                                       *)
(*                                                                         *)
(* Lengths are counted in half pixels, so that the midpoint (a + b) / 2 of *)
(* two whole-pixel coordinates is an exact integer: Px(n) is n pixels.     *)
(* Strings that the code searches with String.includes are tuples of       *)
(* one-character strings, so that the search is a real substring search.   *)
(***************************************************************************)
EXTENDS Integers, Sequences, FiniteSets, TLC

VARIABLES
    systemState,      \* SystemContext.systemState: systemEnabled, flows, items, flowMap
    appTargetsState,  \* SystemContext.appTargetsState.targetItems: TargetId -> Target
    classList,        \* DOM: the highlight classes each host element carries
    elementRect,      \* DOM: each host element's getBoundingClientRect()
    viewport,         \* window.innerWidth / window.innerHeight
    props,            \* the properties each mounted HelpItem is rendered with
    rendered,         \* per item: the style of the portal React last committed, or NotShown
    overlay,          \* per item: thisItem.current, the portal's DOM node, or NoOverlay
    lastRender,       \* what the most recent HelpItem render did
    controllerApi,    \* HelpProvider: the useState cell holding the AppApi
    pendingApi,       \* HelpProvider: state updates queued by setControllerAPI
    supplied,         \* the value the last HelpProvider render gave to ApiProvider
    delivered,        \* the APIs the controller has passed to provideControllerApi, in order
    hostCall          \* the outcome of the host's most recent call on the supplied API

vars == <<systemState, appTargetsState, classList, elementRect, viewport, props,
          rendered, overlay, lastRender, controllerApi, pendingApi, supplied, delivered,
          hostCall>>

itemVars == <<systemState, appTargetsState, classList, elementRect, viewport, props,
              rendered, overlay, lastRender>>

providerVars == <<controllerApi, pendingApi, supplied, delivered, hostCall>>

-----------------------------------------------------------------------------
(* Bounds of the model. *)

\* The small target boxes, viewports and overlays lie on a grid of GridPx
\* pixels, wider than the item's 4px margin.
GridPx == 5

\* Coordinates of the small target boxes range over 0..MaxCoord grid steps.
MaxCoord == 1

\* Widths and heights of the small viewports range over 1..MaxView grid steps.
MaxView == 1

\* Widths and heights of the overlay range over 1..MaxSize grid steps.
MaxSize == 2

\* The controller delivers an API at most MaxDeliveries times.
MaxDeliveries == 3

Px(n) == 2 * n

-----------------------------------------------------------------------------
(* Position strings. *)

Top == <<"t", "o", "p">>
Bottom == <<"b", "o", "t", "t", "o", "m">>
Left == <<"l", "e", "f", "t">>
Right == <<"r", "i", "g", "h", "t">>
Centre == <<"c", "e", "n", "t", "r", "e">>
Center == <<"c", "e", "n", "t", "e", "r">>

Hyphenated(a, b) == a \o <<"-">> \o b

TopLeft == Hyphenated(Top, Left)
TopRight == Hyphenated(Top, Right)
BottomLeft == Hyphenated(Bottom, Left)
BottomRight == Hyphenated(Bottom, Right)
TopCentre == Hyphenated(Top, Centre)
TopCenter == Hyphenated(Top, Center)
BottomCentre == Hyphenated(Bottom, Centre)
BottomCenter == Hyphenated(Bottom, Center)
CenterLeft == Hyphenated(Center, Left)
CentreLeft == Hyphenated(Centre, Left)
CenterRight == Hyphenated(Center, Right)
CentreRight == Hyphenated(Centre, Right)

\* HelpTypes.Position: the twelve position strings.
Positions ==
    {TopLeft, TopRight, BottomLeft, BottomRight, TopCentre, TopCenter,
     BottomCentre, BottomCenter, CenterLeft, CentreLeft, CenterRight, CentreRight}

\* An anchor property that was not given (undefined, or the empty string).
NoAnchor == <<>>

\* String.prototype.includes
Includes(s, sub) ==
    \E k \in 0..(Len(s) - Len(sub)) : SubSeq(s, k + 1, k + Len(sub)) = sub

\* A lookup that anchors the item by the corner it is positioned at.
defaultAnchors_SameCorner(position) == position

defaultAnchors(position) ==
    CASE position = TopLeft -> BottomRight
      [] position = TopRight -> BottomLeft
      [] position = BottomLeft -> TopRight
      [] position = BottomRight -> TopLeft
      [] position = TopCentre -> BottomLeft
      [] position = TopCenter -> BottomLeft
      [] position = BottomCentre -> TopLeft
      [] position = BottomCenter -> TopLeft
      [] position = CenterLeft -> BottomRight
      [] position = CentreLeft -> BottomRight
      [] position = CenterRight -> BottomLeft
      [] position = CentreRight -> BottomLeft

-----------------------------------------------------------------------------
(* Placement: the style that attaches the anchor corner of the item to the *)
(* position corner of the target.                                          *)

YAnchorTop(anchor) == Includes(anchor, Top)

yAnchorOf(anchor) == IF YAnchorTop(anchor) THEN "top" ELSE "bottom"

XAnchorLeft(anchor) == Includes(anchor, Left)

xAnchorOf(anchor) == IF XAnchorLeft(anchor) THEN "left" ELSE "right"

yAnchorTargetBottom(yAnchor, box, vh) ==
    IF yAnchor = "top" THEN box.bottom ELSE vh - box.bottom

\* The target's bottom edge taken where its top edge is meant.
yAnchorTargetTop_BottomEdge(yAnchor, box, vh) ==
    IF yAnchor = "bottom" THEN vh - box.bottom ELSE box.top

yAnchorTargetTop(yAnchor, box, vh) ==
    IF yAnchor = "bottom" THEN vh - box.top ELSE box.top

xAnchorTargetLeft(xAnchor, box, vw) ==
    IF xAnchor = "right" THEN vw - box.left ELSE box.left

xAnchorTargetRight(xAnchor, box, vw) ==
    IF xAnchor = "left" THEN box.right ELSE vw - box.right

yAnchorTargetCentre(yAnchor, box, vh) ==
    IF yAnchor = "top"
    THEN (box.top + box.bottom) \div 2
    ELSE vh - (box.top + box.bottom) \div 2

xAnchorTargetCentre(xAnchor, box, vw) ==
    IF xAnchor = "left"
    THEN (box.right + box.left) \div 2
    ELSE vw - (box.right + box.left) \div 2

\* { [yAnchor]: y, [xAnchor]: x }
StylePair(yAnchor, y, xAnchor, x) ==
    [k \in {yAnchor, xAnchor} |-> IF k = yAnchor THEN y ELSE x]

\* The if-chain over `position` that selects the pair of offsets.
SelectPlacement(position, yAnchor, xAnchor, box, vw, vh) ==
    IF position = BottomRight THEN
        StylePair(yAnchor, yAnchorTargetBottom(yAnchor, box, vh),
                  xAnchor, xAnchorTargetRight(xAnchor, box, vw))
    ELSE IF position = TopLeft THEN
        StylePair(yAnchor, yAnchorTargetTop(yAnchor, box, vh),
                  xAnchor, xAnchorTargetLeft(xAnchor, box, vw))
    ELSE IF position = BottomLeft THEN
        StylePair(yAnchor, yAnchorTargetBottom(yAnchor, box, vh),
                  xAnchor, xAnchorTargetLeft(xAnchor, box, vw))
    ELSE IF position = TopRight THEN
        StylePair(yAnchor, yAnchorTargetTop(yAnchor, box, vh),
                  xAnchor, xAnchorTargetRight(xAnchor, box, vw))
    ELSE IF position \in {BottomCentre, BottomCenter} THEN
        StylePair(yAnchor, yAnchorTargetBottom(yAnchor, box, vh),
                  xAnchor, xAnchorTargetCentre(xAnchor, box, vw))
    ELSE IF position \in {TopCentre, TopCenter} THEN
        StylePair(yAnchor, yAnchorTargetTop(yAnchor, box, vh),
                  xAnchor, xAnchorTargetCentre(xAnchor, box, vw))
    ELSE IF position \in {CentreLeft, CenterLeft} THEN
        StylePair(yAnchor, yAnchorTargetCentre(yAnchor, box, vh),
                  xAnchor, xAnchorTargetLeft(xAnchor, box, vw))
    ELSE IF position \in {CentreRight, CenterRight} THEN
        StylePair(yAnchor, yAnchorTargetCentre(yAnchor, box, vh),
                  xAnchor, xAnchorTargetRight(xAnchor, box, vw))
    ELSE <<>>

\* const anchor = props.anchor || defaultAnchors[position]
ResolveAnchor(anchorProp, position) ==
    IF anchorProp # NoAnchor THEN anchorProp ELSE defaultAnchors(position)

\* itemPosition, as the render computes it.
ItemPosition(position, anchorProp, box, vw, vh) ==
    LET anchor == ResolveAnchor(anchorProp, position)
    IN  SelectPlacement(position, yAnchorOf(anchor), xAnchorOf(anchor), box, vw, vh)

\* The margin the render gives the item: [top, right, bottom, left].
ItemMargin(position) ==
    IF Includes(position, Left) THEN [top |-> 0, right |-> Px(4), bottom |-> 0, left |-> 0]
    ELSE IF Includes(position, Right) THEN [top |-> 0, right |-> 0, bottom |-> 0, left |-> Px(4)]
    ELSE IF Includes(position, Bottom) THEN [top |-> Px(4), right |-> 0, bottom |-> 0, left |-> 0]
    ELSE [top |-> 0, right |-> 0, bottom |-> Px(4), left |-> 0]


-----------------------------------------------------------------------------
(* The overlay's DOM node and the post-render overflow correction.         *)

StyleKeys == {"top", "bottom", "left", "right"}

NoOverlay == [mounted |-> FALSE]

NonNegative(n) == IF n < 0 THEN 0 ELSE n

\* disp.getBoundingClientRect() of an absolutely positioned node whose
\* containing block is the viewport: the border box that CSS 2.1 10.3.7 and
\* 10.6.4 resolve from the node's left/right/top/bottom, its margins and its
\* content size ov.w x ov.h (used when an axis is not fixed from both sides).
BoundingClientRect(ov, vw, vh) ==
    LET s == ov.style
        m == ov.margin
        has(k) == k \in DOMAIN s
        width == IF has("left") /\ has("right")
                 THEN NonNegative(vw - s.left - s.right - m.left - m.right)
                 ELSE ov.w
        height == IF has("top") /\ has("bottom")
                  THEN NonNegative(vh - s.top - s.bottom - m.top - m.bottom)
                  ELSE ov.h
        left == IF has("left") THEN s.left + m.left
                ELSE IF has("right") THEN vw - s.right - m.right - width
                ELSE m.left
        top == IF has("top") THEN s.top + m.top
               ELSE IF has("bottom") THEN vh - s.bottom - m.bottom - height
               ELSE m.top
    IN  [top |-> top, bottom |-> top + height, left |-> left, right |-> left + width]

\* disp.style[k] = `${v}px`
SetStyle(style, k, v) ==
    [j \in (DOMAIN style) \cup {k} |-> IF j = k THEN v ELSE style[j]]

\* if (left < 0) {...} else if (right > initialWidth.current) {...}
CorrectHorizontal(style, rect, vw, initialWidth) ==
    LET width == rect.right - rect.left
    IN  IF rect.left < 0
        THEN SetStyle(SetStyle(style, "left", 0), "right", vw - width)
        ELSE IF rect.right > initialWidth
        THEN SetStyle(SetStyle(style, "right", 0), "left", initialWidth - width)
        ELSE style

\* if (top < 0) {...}
CorrectVertical(style, rect, vh) ==
    LET height == rect.bottom - rect.top
    IN  IF rect.top < 0
        THEN SetStyle(SetStyle(style, "top", 0), "bottom", vh - height)
        ELSE style

\* The effect that runs after every render of the item.
OverflowCorrection(ov, vw, vh, initialWidth) ==
    IF ov.mounted
    THEN LET rect == BoundingClientRect(ov, vw, vh)
         IN  [ov EXCEPT !.style =
                 CorrectVertical(CorrectHorizontal(ov.style, rect, vw, initialWidth),
                                 rect, vh)]
    ELSE ov

\* React's commit of the portal's style property: a key is written when its
\* value differs from the previously rendered one, removed when it is no
\* longer rendered, and otherwise left as the DOM has it.
CommitStyle(domStyle, prevStyle, nextStyle) ==
    LET written == {k \in DOMAIN nextStyle :
                        k \notin DOMAIN prevStyle \/ prevStyle[k] # nextStyle[k]}
        removed == {k \in DOMAIN prevStyle : k \notin DOMAIN nextStyle}
    IN  [k \in ((DOMAIN domStyle) \ removed) \cup written |->
            IF k \in written THEN nextStyle[k] ELSE domStyle[k]]


-----------------------------------------------------------------------------
(* The help system's state, as the HelpItem reads it.                      *)

ItemIds == {"I1", "I2"}
FlowIds == {"F"}
TargetIds == {"T"}
Elements == {"E1", "E2"}

NoId == "undefined"
NoRef == "null"

FlowItems == <<"I1", "I2">>

HighlightClasses == {"rdh-target", "rdh-target-highlight"}

NotShown == [shown |-> FALSE]

NoMargin == [given |-> FALSE]

ZeroBox == [top |-> 0, bottom |-> 0, left |-> 0, right |-> 0]

\* helpState.flowMap[item], helpState.flows[flowId]: defined or undefined
FlowDefined(item, helpState) ==
    /\ item \in DOMAIN helpState.flowMap
    /\ helpState.flowMap[item] \in DOMAIN helpState.flows

ItemDefined(item, helpState) == item \in DOMAIN helpState.items

\* getItemState: the item's flow and the item's own state, each a set that
\* holds the state when it is defined and is empty when it is null/undefined.
getItemState(item, helpState) ==
    IF item = NoId
    THEN [flow |-> {}, itemState |-> {}]
    ELSE [flow |-> IF FlowDefined(item, helpState)
                   THEN {helpState.flows[helpState.flowMap[item]]}
                   ELSE {},
          itemState |-> IF ItemDefined(item, helpState)
                        THEN {helpState.items[item]}
                        ELSE {}]

\* target && target.ref
TargetHasRef(targetItems, t) ==
    /\ t \in DOMAIN targetItems
    /\ targetItems[t].ref # NoRef

\* The box the render measures: the target's, or zeros without a target.
TargetBox(targetItems, t, rects) ==
    IF TargetHasRef(targetItems, t) THEN rects[targetItems[t].ref] ELSE ZeroBox

\* const targetDisplayNone = targetTop === targetBottom
targetDisplayNone(box) == box.top = box.bottom

\* The condition without the defence against a display:none target.
ShouldRender_NoDisplayNone(p, targetItems, box, helpState) ==
    LET st == getItemState(p.myId, helpState)
    IN  /\ p.myId # NoId
        /\ TargetHasRef(targetItems, p.target)
        /\ \E f \in st.flow : f.visible
        /\ \E m \in st.itemState : m.visible
        /\ helpState.systemEnabled

\* The condition under which the render shows the item.
ShouldRender(p, targetItems, box, helpState) ==
    LET st == getItemState(p.myId, helpState)
    IN  /\ p.myId # NoId
        /\ TargetHasRef(targetItems, p.target)
        /\ ~targetDisplayNone(box)
        /\ \E f \in st.flow : f.visible
        /\ \E m \in st.itemState : m.visible
        /\ helpState.systemEnabled

\* let itemMargin = props.margin; if (!itemMargin) {...}
MarginOf(p) == IF p.margin.given THEN p.margin.value ELSE ItemMargin(p.position)

\* "OK" on the flow's last item, "Skip" otherwise
dismissFlowLabel(flowState) ==
    IF flowState.activeItem = Len(flowState.items) - 1 THEN "OK" ELSE "Skip"

\* target.highlighters.delete(props.myId)
HighlightersAfterHide(highlighters, myId) == highlighters \ {myId}

\* The classes removed whenever an item undoes its highlight.
ClassesAfterHide_Always(classes, highlightersLeft) == classes \ HighlightClasses

\* The classes never removed.
ClassesAfterHide_Never(classes, highlightersLeft) == classes

\* if (target.highlighters.size === 0) classList.remove(...)
ClassesAfterHide(classes, highlightersLeft) ==
    IF Cardinality(highlightersLeft) = 0 THEN classes \ HighlightClasses ELSE classes

\* if (highlightTarget) { classList.add(...); highlighters.add(myId) }
HighlightersAfterShow(highlighters, p) ==
    IF p.highlightTarget THEN highlighters \cup {p.myId} ELSE highlighters

ClassesAfterShow(classes, p) ==
    IF p.highlightTarget THEN classes \cup HighlightClasses ELSE classes

\* if (highlightTarget && target?.ref && props.myId) if (highlighters.has(myId))
UndoesHighlight(p, targetItems) ==
    /\ p.highlightTarget
    /\ TargetHasRef(targetItems, p.target)
    /\ p.myId # NoId
    /\ p.myId \in targetItems[p.target].highlighters

\* One render of HelpItem i, its commit and its post-render effect.
Render(i) ==
    LET p == props[i]
        t == p.target
        box == TargetBox(appTargetsState, t, elementRect)
        vw == viewport.vw
        vh == viewport.vh
    IN  IF ShouldRender(p, appTargetsState, box, systemState)
        THEN LET ref == appTargetsState[t].ref
                 flowState == CHOOSE f \in getItemState(p.myId, systemState).flow : TRUE
                 next == [shown |-> TRUE,
                          style |-> ItemPosition(p.position, p.anchor, box, vw, vh),
                          margin |-> MarginOf(p),
                          label |-> dismissFlowLabel(flowState)]
                 committed ==
                     IF overlay[i].mounted
                     THEN [overlay[i] EXCEPT
                             !.style = CommitStyle(@, rendered[i].style, next.style),
                             !.margin = next.margin]
                     ELSE [mounted |-> TRUE, style |-> next.style,
                           margin |-> next.margin, w |-> p.w, h |-> p.h]
             IN  /\ appTargetsState' =
                        [appTargetsState EXCEPT
                            ![t].highlighters = HighlightersAfterShow(@, p)]
                 /\ classList' = [classList EXCEPT ![ref] = ClassesAfterShow(@, p)]
                 /\ rendered' = [rendered EXCEPT ![i] = next]
                 /\ overlay' = [overlay EXCEPT
                                  ![i] = OverflowCorrection(committed, vw, vh, vw)]
                 /\ lastRender' = [item |-> i, showing |-> TRUE,
                                   displayNone |-> targetDisplayNone(box),
                                   unmarked |-> FALSE]
        ELSE /\ IF UndoesHighlight(p, appTargetsState)
                THEN LET ref == appTargetsState[t].ref
                         left == HighlightersAfterHide(appTargetsState[t].highlighters,
                                                       p.myId)
                     IN  /\ appTargetsState' =
                                [appTargetsState EXCEPT ![t].highlighters = left]
                         /\ classList' =
                                [classList EXCEPT ![ref] = ClassesAfterHide(@, left)]
                ELSE UNCHANGED <<appTargetsState, classList>>
             /\ rendered' = [rendered EXCEPT ![i] = NotShown]
             /\ overlay' = [overlay EXCEPT ![i] = NoOverlay]
             /\ lastRender' = [item |-> i, showing |-> FALSE,
                               displayNone |-> targetDisplayNone(box),
                               unmarked |-> UndoesHighlight(p, appTargetsState)]

HelpItem ==
    /\ \E i \in DOMAIN props : Render(i)
    /\ UNCHANGED <<systemState, elementRect, viewport, props>>
    /\ UNCHANGED providerVars


-----------------------------------------------------------------------------
(* The controller's operations on the help state and the target registry.  *)
(* The HelpController is not among the sources; these follow the           *)
(* specification's sections 3, 4.2 and 4.3.                                *)

EmptyMap == [x \in {} |-> 0]

UninitialisedState ==
    [systemEnabled |-> TRUE, flows |-> EmptyMap, items |-> EmptyMap, flowMap |-> EmptyMap]

InitialisedState ==
    [systemEnabled |-> TRUE,
     flows |-> [f \in FlowIds |->
                  [id |-> f, visible |-> TRUE, enabled |-> TRUE,
                   items |-> FlowItems, activeItem |-> 0]],
     items |-> [i \in ItemIds |-> [visible |-> TRUE, enabled |-> TRUE]],
     flowMap |-> [i \in ItemIds |-> "F"]]

enableHelp(helpState, b) == [helpState EXCEPT !.systemEnabled = b]

enableFlow(helpState, f, b) ==
    IF f \in DOMAIN helpState.flows
    THEN [helpState EXCEPT !.flows[f].enabled = b]
    ELSE helpState

enableItem(helpState, i, b) ==
    IF i \in DOMAIN helpState.items
    THEN [helpState EXCEPT !.items[i].enabled = b]
    ELSE helpState

showFlow(helpState, f, b) ==
    IF f \in DOMAIN helpState.flows
    THEN [helpState EXCEPT !.flows[f].visible = b]
    ELSE helpState

showItem(helpState, i, b) ==
    IF i \in DOMAIN helpState.items
    THEN [helpState EXCEPT !.items[i].visible = b]
    ELSE helpState

advanceActive(helpState, f) ==
    IF f \in DOMAIN helpState.flows
       /\ helpState.flows[f].activeItem < Len(helpState.flows[f].items)
    THEN [helpState EXCEPT !.flows[f].activeItem = @ + 1]
    ELSE helpState

\* The ref-callback of registerTargetItem(t), called with an element or null.
refCallback(targetItems, t, e) ==
    IF t \in DOMAIN targetItems
    THEN IF e = NoRef /\ targetItems[t].highlighters = {}
         THEN [x \in (DOMAIN targetItems) \ {t} |-> targetItems[x]]
         ELSE [targetItems EXCEPT ![t].ref = e]
    ELSE IF e = NoRef
         THEN targetItems
         ELSE [x \in (DOMAIN targetItems) \cup {t} |->
                 IF x = t THEN [ref |-> e, highlighters |-> {}] ELSE targetItems[x]]

\* The flag a flow's item is active by: its index is the flow's active index.
IsActiveItem(helpState, i) ==
    /\ FlowDefined(i, helpState)
    /\ LET f == helpState.flows[helpState.flowMap[i]]
       IN  /\ f.activeItem < Len(f.items)
           /\ f.items[f.activeItem + 1] = i

ControllerMount ==
    /\ systemState = UninitialisedState
    /\ systemState' = InitialisedState
    /\ UNCHANGED <<appTargetsState, classList, elementRect, viewport, props,
                   rendered, overlay, lastRender>>
    /\ UNCHANGED providerVars

ControllerAction ==
    /\ \/ \E b \in BOOLEAN : systemState' = enableHelp(systemState, b)
       \/ \E f \in FlowIds, b \in BOOLEAN : systemState' = enableFlow(systemState, f, b)
       \/ \E i \in ItemIds, b \in BOOLEAN : systemState' = enableItem(systemState, i, b)
       \/ \E f \in FlowIds, b \in BOOLEAN : systemState' = showFlow(systemState, f, b)
       \/ \E i \in ItemIds, b \in BOOLEAN : systemState' = showItem(systemState, i, b)
       \/ \E f \in FlowIds : systemState' = advanceActive(systemState, f)
    /\ UNCHANGED <<appTargetsState, classList, elementRect, viewport, props,
                   rendered, overlay, lastRender>>
    /\ UNCHANGED providerVars

\* The host mounts, moves or unmounts the element of target t.
TargetRegistration ==
    /\ \E t \in TargetIds, e \in Elements \cup {NoRef} :
          appTargetsState' = refCallback(appTargetsState, t, e)
    /\ UNCHANGED <<systemState, classList, elementRect, viewport, props,
                   rendered, overlay, lastRender>>
    /\ UNCHANGED providerVars

-----------------------------------------------------------------------------
(* The item's two click handlers, and the environment of the item.         *)

\* onClick of "Don't show me these": controller.enableHelp(false)
turnOffHelpSystem(i) ==
    /\ rendered[i].shown
    /\ systemState' = enableHelp(systemState, FALSE)

\* onClick of "Skip"/"OK": controller.enableFlow(flowState.id, false), or a warning
dismissFlow(i) ==
    /\ rendered[i].shown
    /\ LET st == getItemState(props[i].myId, systemState)
       IN  IF st.flow # {}
           THEN \E f \in st.flow : systemState' = enableFlow(systemState, f.id, FALSE)
           ELSE UNCHANGED systemState

Click ==
    /\ \E i \in DOMAIN props : turnOffHelpSystem(i) \/ dismissFlow(i)
    /\ UNCHANGED <<appTargetsState, classList, elementRect, viewport, props,
                   rendered, overlay, lastRender>>
    /\ UNCHANGED providerVars

\* The target of the documented scenario, and the same element hidden.
ScenarioBox == [top |-> Px(100), bottom |-> Px(120), left |-> Px(50), right |-> Px(150)]

ScenarioViewport == [vw |-> Px(800), vh |-> Px(600)]

\* The host lays element E1 out again: shown, or inside a display:none element.
ElementLayout ==
    /\ \E box \in {ScenarioBox, ZeroBox} :
          elementRect' = [elementRect EXCEPT !["E1"] = box]
    /\ UNCHANGED <<systemState, appTargetsState, classList, viewport, props,
                   rendered, overlay, lastRender>>
    /\ UNCHANGED providerVars

\* The containing flow renders item i with another highlightTarget property.
SetHighlightTarget ==
    /\ \E i \in DOMAIN props, b \in BOOLEAN :
          props' = [props EXCEPT ![i].highlightTarget = b]
    /\ UNCHANGED <<systemState, appTargetsState, classList, elementRect, viewport,
                   rendered, overlay, lastRender>>
    /\ UNCHANGED providerVars


-----------------------------------------------------------------------------
(* HelpProvider: the boundary that hands the controller's API to the host. *)

\* The operations of AppApi (specification, section 6).
AppApiOps == {"registerTargetItem", "enableHelp", "enableFlow", "translate"}

\* The non-null initialiser of the useState cell: registerTargetItem only.
PlaceholderApi == [name |-> "placeholder", ops |-> {"registerTargetItem"}]

\* The API objects the controller delivers.
RealApis == {[name |-> n, ops |-> AppApiOps] : n \in {"api1", "api2"}}

NoCall == [op |-> "none", result |-> "none"]

\* setControllerAPI(apiObject): the update is queued for the next render.
provideControllerApi(queue, apiObject) == Append(queue, apiObject)

\* A cell that ignores the queued updates.
useStateValue_Stale(cell, queue) == cell

\* useState at a render: the cell after the queued updates are applied.
useStateValue(cell, queue) == IF queue = <<>> THEN cell ELSE queue[Len(queue)]

\* <ApiProvider value={controllerApi}>
ApiProviderValue(cell) == cell

\* The controller hands over its API from its post-commit effect, once per
\* API change: the boundary's render of the previous hand-over has happened.
ControllerProvidesApi ==
    /\ Len(delivered) < MaxDeliveries
    /\ pendingApi = <<>>
    /\ \E a \in RealApis :
          /\ pendingApi' = provideControllerApi(pendingApi, a)
          /\ delivered' = Append(delivered, a)
    /\ UNCHANGED <<controllerApi, supplied, hostCall>>
    /\ UNCHANGED itemVars

\* The re-render of HelpProvider that a queued state update schedules.
HelpProviderRender ==
    /\ pendingApi # <<>>
    /\ controllerApi' = useStateValue(controllerApi, pendingApi)
    /\ pendingApi' = <<>>
    /\ supplied' = ApiProviderValue(controllerApi')
    /\ UNCHANGED <<delivered, hostCall>>
    /\ UNCHANGED itemVars

\* The placeholder's registerTargetItem returns a callback that only logs.
PlaceholderEffect == UNCHANGED <<systemState, appTargetsState>>

\* What operation op of a delivered API does to the help state.
RealApiEffect(op) ==
    \/ /\ op = "registerTargetItem"
       /\ \E t \in TargetIds, e \in Elements \cup {NoRef} :
             appTargetsState' = refCallback(appTargetsState, t, e)
       /\ UNCHANGED systemState
    \/ /\ op = "enableHelp"
       /\ \E b \in BOOLEAN : systemState' = enableHelp(systemState, b)
       /\ UNCHANGED appTargetsState
    \/ /\ op = "enableFlow"
       /\ \E f \in FlowIds, b \in BOOLEAN :
             systemState' = enableFlow(systemState, f, b)
       /\ UNCHANGED appTargetsState
    \/ /\ op = "translate"
       /\ UNCHANGED <<systemState, appTargetsState>>

ApiEffect(api, op) ==
    IF api = PlaceholderApi THEN PlaceholderEffect ELSE RealApiEffect(op)

\* Host code calls operation op of the API it reads from the context. Calling
\* a member the object does not have throws a TypeError.
HostCall ==
    /\ \E op \in AppApiOps :
          IF op \in supplied.ops
          THEN /\ hostCall' = [op |-> op, result |-> "returned"]
               /\ ApiEffect(supplied, op)
          ELSE /\ hostCall' = [op |-> op, result |-> "TypeError"]
               /\ UNCHANGED <<systemState, appTargetsState>>
    /\ UNCHANGED <<controllerApi, pendingApi, supplied, delivered>>
    /\ UNCHANGED <<classList, elementRect, viewport, props, rendered, overlay,
                   lastRender>>

-----------------------------------------------------------------------------
(* Initial states and specifications.                                      *)

DefaultProps ==
    [target |-> "T", position |-> BottomRight, anchor |-> NoAnchor, margin |-> NoMargin,
     highlightTarget |-> TRUE, myId |-> NoId, w |-> Px(100), h |-> Px(40)]

ProviderInit ==
    /\ controllerApi = PlaceholderApi
    /\ pendingApi = <<>>
    /\ supplied = ApiProviderValue(PlaceholderApi)
    /\ delivered = <<>>
    /\ hostCall = NoCall

ItemStateInit ==
    /\ classList = [e \in Elements |-> {}]
    /\ rendered = [i \in ItemIds |-> NotShown]
    /\ overlay = [i \in ItemIds |-> NoOverlay]
    /\ lastRender = [item |-> "none", showing |-> FALSE, displayNone |-> FALSE,
                     unmarked |-> FALSE]

\* The system before the controller has mounted and before any registration.
Init ==
    /\ systemState = UninitialisedState
    /\ appTargetsState = EmptyMap
    /\ elementRect = [e \in Elements |-> ScenarioBox]
    /\ viewport = ScenarioViewport
    /\ props = [i \in ItemIds |-> [DefaultProps EXCEPT !.myId = i]]
    /\ ItemStateInit
    /\ ProviderInit

Next ==
    \/ HelpItem
    \/ ControllerMount
    \/ ControllerAction
    \/ Click
    \/ TargetRegistration
    \/ ElementLayout

Spec == Init /\ [][Next]_vars


\* The items rendered against a registered target whose element never changes.
StableInit ==
    /\ systemState = UninitialisedState
    /\ appTargetsState = [t \in TargetIds |-> [ref |-> "E1", highlighters |-> {}]]
    /\ elementRect = [e \in Elements |-> ScenarioBox]
    /\ viewport = ScenarioViewport
    /\ props = [i \in ItemIds |-> [DefaultProps EXCEPT !.myId = i]]
    /\ ItemStateInit
    /\ ProviderInit

StableNext ==
    \/ HelpItem
    \/ ControllerMount
    \/ ControllerAction
    \/ Click
    \/ ElementLayout
    \/ SetHighlightTarget

StableSpec == StableInit /\ [][StableNext]_vars

\* Placement and overflow correction of one visible item, over every position
\* and anchor and over bounded target boxes, viewports and overlay sizes.
Coords == {Px(GridPx * c) : c \in 0..MaxCoord}

Boxes ==
    {ScenarioBox} \cup
    {[top |-> t, bottom |-> b, left |-> l, right |-> r] :
        t \in Coords, b \in Coords, l \in Coords, r \in Coords}

Viewports ==
    {ScenarioViewport} \cup
    {[vw |-> Px(GridPx * a), vh |-> Px(GridPx * b)] : a \in 1..MaxView, b \in 1..MaxView}

Sizes == {Px(GridPx * n) : n \in 1..MaxSize}

\* margin="0"
ZeroMargin ==
    [given |-> TRUE, value |-> [top |-> 0, right |-> 0, bottom |-> 0, left |-> 0]]

GeomInit ==
    /\ systemState = InitialisedState
    /\ appTargetsState = [t \in TargetIds |-> [ref |-> "E1", highlighters |-> {}]]
    /\ \E box \in Boxes :
          /\ box.top <= box.bottom
          /\ box.left <= box.right
          /\ elementRect = [e \in Elements |-> box]
    /\ viewport \in Viewports
    /\ \E position \in Positions, anchor \in Positions \cup {NoAnchor},
          margin \in {NoMargin, ZeroMargin}, w \in Sizes, h \in Sizes :
          props = [i \in {"I1"} |->
                     [DefaultProps EXCEPT !.myId = i, !.position = position,
                                          !.anchor = anchor, !.margin = margin,
                                          !.w = w, !.h = h]]
    /\ ItemStateInit
    /\ ProviderInit

GeomNext == HelpItem

GeomSpec == GeomInit /\ [][GeomNext]_vars

\* The boundary alone: deliveries, its re-renders, and the host's calls.
ProviderNext ==
    \/ ControllerProvidesApi
    \/ HelpProviderRender
    \/ HostCall

ProviderSpec == Init /\ [][ProviderNext]_vars

\* React runs the render that a state update schedules.
FairProviderSpec == ProviderSpec /\ WF_vars(HelpProviderRender)


-----------------------------------------------------------------------------
(* Properties.                                                             *)

HasHighlight(e) == "rdh-target-highlight" \in classList[e]

\* The six flags of the specification's effective visibility.
EffectivelyVisible(i, helpState) ==
    /\ helpState.systemEnabled
    /\ FlowDefined(i, helpState)
    /\ ItemDefined(i, helpState)
    /\ helpState.flows[helpState.flowMap[i]].enabled
    /\ helpState.flows[helpState.flowMap[i]].visible
    /\ helpState.items[i].enabled
    /\ helpState.items[i].visible
    /\ IsActiveItem(helpState, i)

\* C1: a HelpItem whose target is registered and measurable is rendered only
\* if systemEnabled, flow.enabled, flow.visible, item.enabled, item.visible
\* all hold and the item is its flow's active item.
C1_RenderedOnlyIfEffectivelyVisible ==
    [][\A i \in ItemIds :
          (Render(i) /\ rendered'[i].shown) => EffectivelyVisible(i, systemState)]_vars

\* C3: a target loses its highlight classification only by the not-showing
\* render of the last item left in its highlighter set; while another item's
\* marker is in the set, an item that stops showing leaves the classes on.
C3_HighlightKeptUntilLast ==
    [][\A e \in Elements :
          (HasHighlight(e) /\ ~HasHighlight(e)') =>
              \E i \in ItemIds, t \in DOMAIN appTargetsState :
                  /\ Render(i)
                  /\ ~rendered'[i].shown
                  /\ appTargetsState[t].ref = e
                  /\ appTargetsState[t].highlighters = {i}
                  /\ appTargetsState'[t].highlighters = {}]_vars

\* C3 witness: both items had marked the target, I2 has rendered not showing
\* and removed its marker, and the target still carries the classes.
C3_Witness ==
    /\ lastRender = [item |-> "I2", showing |-> FALSE, displayNone |-> FALSE,
                     unmarked |-> TRUE]
    /\ "T" \in DOMAIN appTargetsState
    /\ appTargetsState["T"].highlighters = {"I1"}
    /\ appTargetsState["T"].ref # NoRef
    /\ HighlightClasses \subseteq classList[appTargetsState["T"].ref]

\* C4: after a render of an item that does not show it, for whatever reason,
\* no target's highlighter set holds that item's marker.
C4_MarkerRemovedWhenNotShowing ==
    (lastRender.item # "none" /\ ~lastRender.showing) =>
        \A t \in DOMAIN appTargetsState :
            lastRender.item \notin appTargetsState[t].highlighters

\* C8: a render that measures a target box with top = bottom shows nothing,
\* whatever the flags and the active index are.
C8_DisplayNoneRendersNothing ==
    (lastRender.item # "none" /\ lastRender.displayNone) =>
        /\ ~lastRender.showing
        /\ rendered[lastRender.item] = NotShown
        /\ overlay[lastRender.item] = NoOverlay

\* C8 witness: every flag would show I1 and its target is registered, and
\* the render has shown nothing because the target's box is degenerate.
C8_Witness ==
    /\ lastRender.item = "I1"
    /\ lastRender.displayNone
    /\ EffectivelyVisible("I1", systemState)
    /\ TargetHasRef(appTargetsState, "T")
    /\ targetDisplayNone(elementRect[appTargetsState["T"].ref])
    /\ rendered["I1"] = NotShown

\* C10: while the target's element stays the same, the element carries
\* rdh-target-highlight exactly when the target's highlighter set is non-empty.
C10_HighlightIffHighlighters ==
    \A t \in DOMAIN appTargetsState :
        appTargetsState[t].ref # NoRef =>
            (HasHighlight(appTargetsState[t].ref) <=> appTargetsState[t].highlighters # {})

\* C10 witness: I1 marked the target, then lost its highlightTarget property
\* and rendered not showing: its marker and the classes are both still there.
C10_Witness ==
    /\ lastRender.item = "I1"
    /\ ~lastRender.showing
    /\ ~props["I1"].highlightTarget
    /\ appTargetsState["T"].highlighters = {"I1"}
    /\ HasHighlight("E1")


\* The item of the placement specification, its measured target and viewport.
PlacedBox == elementRect["E1"]

Placed(i) == i \in DOMAIN props /\ rendered[i].shown

\* C5 as stated: position bottom-right without an anchor is placed with
\* { bottom: viewportHeight - target.bottom, right: viewportWidth - target.right }.
C5_BottomRightStyleAsStated ==
    \A i \in ItemIds :
        (Placed(i) /\ props[i].position = BottomRight /\ props[i].anchor = NoAnchor) =>
            rendered[i].style = [bottom |-> viewport.vh - PlacedBox.bottom,
                                 right |-> viewport.vw - PlacedBox.right]

\* C5 amended: position bottom-right without an anchor is placed with
\* { top: target.bottom, left: target.right }: the default anchor of
\* bottom-right is top-left. In the scenario that is { top: 120, left: 150 }.
C5_BottomRightStyle ==
    \A i \in ItemIds :
        (Placed(i) /\ props[i].position = BottomRight /\ props[i].anchor = NoAnchor) =>
            /\ rendered[i].style = [top |-> PlacedBox.bottom, left |-> PlacedBox.right]
            /\ (PlacedBox = ScenarioBox /\ viewport = ScenarioViewport) =>
                  rendered[i].style = [top |-> Px(120), left |-> Px(150)]

\* C5 witness: the scenario's item has been placed.
C5_Witness ==
    /\ Placed("I1")
    /\ props["I1"].position = BottomRight
    /\ props["I1"].anchor = NoAnchor
    /\ PlacedBox = ScenarioBox
    /\ viewport = ScenarioViewport
    /\ rendered["I1"].style = [top |-> Px(120), left |-> Px(150)]

\* The target edge that a position pairs with, read off the position's name.
VerticalEdge(position, box) ==
    IF Includes(position, Top) THEN box.top
    ELSE IF Includes(position, Bottom) THEN box.bottom
    ELSE (box.top + box.bottom) \div 2

HorizontalEdge(position, box) ==
    IF Includes(position, Left) THEN box.left
    ELSE IF Includes(position, Right) THEN box.right
    ELSE (box.left + box.right) \div 2

\* C6: the style has exactly one vertical and one horizontal key, the keys
\* the anchor names; a top key holds the position's vertical target edge E, a
\* bottom key holds viewportHeight - E, and likewise left and right.
C6_AnchorOffsets ==
    \A i \in ItemIds :
        Placed(i) =>
            LET style == rendered[i].style
                anchor == IF props[i].anchor # NoAnchor THEN props[i].anchor
                          ELSE defaultAnchors(props[i].position)
                ev == VerticalEdge(props[i].position, PlacedBox)
                eh == HorizontalEdge(props[i].position, PlacedBox)
            IN  /\ DOMAIN style \subseteq StyleKeys
                /\ Cardinality(DOMAIN style \cap {"top", "bottom"}) = 1
                /\ Cardinality(DOMAIN style \cap {"left", "right"}) = 1
                /\ Includes(anchor, Top) => "top" \in DOMAIN style
                /\ Includes(anchor, Bottom) => "bottom" \in DOMAIN style
                /\ Includes(anchor, Left) => "left" \in DOMAIN style
                /\ Includes(anchor, Right) => "right" \in DOMAIN style
                /\ "top" \in DOMAIN style => style.top = ev
                /\ "bottom" \in DOMAIN style => style.bottom = viewport.vh - ev
                /\ "left" \in DOMAIN style => style.left = eh
                /\ "right" \in DOMAIN style => style.right = viewport.vw - eh

\* C6 witness: a centre position with an explicit bottom-right anchor, on a
\* target whose midpoint is not a whole pixel.
C6_Witness ==
    /\ Placed("I1")
    /\ props["I1"].position = CentreLeft
    /\ props["I1"].anchor = BottomRight
    /\ (PlacedBox.top + PlacedBox.bottom) % Px(2) # 0
    /\ rendered["I1"].style.bottom = viewport.vh - (PlacedBox.top + PlacedBox.bottom) \div 2

\* C7: with the viewport and the overlay's size unchanged, a further run of
\* the overflow correction leaves the overlay's style as the first run left it.
C7_OverflowCorrectionIdempotent ==
    [][\A i \in ItemIds :
          (overlay[i].mounted /\ overlay'[i].mounted) =>
              overlay'[i].style = overlay[i].style]_vars

\* C2: before the controller has delivered its API, every AppApi operation
\* of the supplied API returns when host code calls it, and changes no help state.
C2_PlaceholderAbsorbsCalls ==
    [][(delivered = <<>> /\ HostCall) =>
          /\ hostCall'.result = "returned"
          /\ UNCHANGED itemVars]_vars

\* A delivery of api is awaiting the boundary's render.
Awaiting(api) == pendingApi # <<>> /\ pendingApi[Len(pendingApi)] = api

\* C9: every delivered API is supplied to the host by a later render; once a
\* real API is supplied the placeholder never is again; and when no delivery
\* is awaiting a render the host has the most recently delivered API.
C9_DeliveredApiSupplied ==
    /\ \A api \in RealApis : [](Awaiting(api) => <>(supplied = api))
    /\ [][supplied # PlaceholderApi => supplied' # PlaceholderApi]_vars
    /\ []((delivered # <<>> /\ pendingApi = <<>>) =>
             supplied = delivered[Len(delivered)])
    /\ [](delivered = <<>> => supplied = PlaceholderApi)

\* C9 witness: two different APIs were delivered and the host has the second.
C9_Witness ==
    /\ Len(delivered) = 2
    /\ delivered[1] # delivered[2]
    /\ pendingApi = <<>>
    /\ supplied = delivered[2]

=============================================================================
